---- MODULE Spec2Model ----
(***************************************************************************)
(* Press-to-talk capture controller (store/voice-store.ts), its Recorder   *)
(* (services/audio/audio-service.ts) and its simulated transcription       *)
(* backend (services/voice-api/stub-voice-api.ts).                         *)
(*                                                                         *)
(* The repository holds two copies of the store: the one without the       *)
(* 'recorded' state (part_005 lines 1-371, storeVersion = 1) and the one   *)
(* with it (part_005 lines 373-963, storeVersion = 2).  Both are modelled; *)
(* storeVersion is fixed by Init.                                          *)
(*                                                                         *)
(* Scheduling: JavaScript runs one macrotask at a time.  Every action below *)
(* is one macrotask (a user intent, a timer callback, or the resolution of *)
(* one platform promise) together with the promise continuations it makes  *)
(* runnable, up to the next await on a platform promise or timer.          *)
(***************************************************************************)
EXTENDS Integers, Sequences, FiniteSets, Bags, TLC

(* ------------------------------ bounds -------------------------------- *)
\* startRecording / retryPermission intents the user issues in one run
MaxStarts == 2
\* transcription requests (voiceApi.processVoice calls) issued in one run
MaxRequests == 2
\* async continuations (suspended handlers) in flight at once
MaxTasks == 2
\* largest value of the Recorder's duration counter (in polling periods)
MaxDuration == 1

VARIABLES
    storeVersion,          \* which copy of the store is running (1 or 2)
    state,                 \* VoiceStore.state : AppState
    transcripts,           \* VoiceStore.transcripts, most recent first
    currentScenario,       \* VoiceStore.currentScenario
    clarificationContext,  \* module-level slot of the store: <<>> or <<ctx>>
    durationInterval,      \* store's tick timer handle is non-null
    leakedIntervals,       \* store tick timers still running with no handle
    recording,             \* AudioServiceImpl.recording: NoUri or the capture
    recordingDuration,     \* AudioServiceImpl.recordingDuration
    svcDurationInterval,   \* AudioServiceImpl.durationInterval is non-null
    svcLeakedIntervals,    \* Recorder polling timers running with no handle
    files,                 \* recording files present in the cache directory
    deleteCalls,           \* per file: number of delete requests made
    scenario,              \* StubVoiceApi.scenario
    clarificationState,    \* StubVoiceApi.clarificationState (ids with count 1)
    nextClarificationId,   \* ids generateClarificationId has handed out
    tasks,                 \* bag of suspended async handlers
    resultTimers,          \* pending auto-expire timers, each named by the Result that set it
    clarificationTimers,   \* pending auto-expire timers, each named by its Clarification's id
    nextUri,               \* captures the platform has created
    starts,                \* startRecording intents issued
    requestLog,            \* processVoice inputs issued so far, oldest first
    watch,                 \* the steps this specification records in last
    last                   \* the latest recorded step: [op, pre, arg]

vars == <<storeVersion, state, transcripts, currentScenario, clarificationContext,
          durationInterval, leakedIntervals, recording, recordingDuration,
          svcDurationInterval, svcLeakedIntervals, files, deleteCalls, scenario,
          clarificationState, nextClarificationId, tasks, resultTimers,
          clarificationTimers, nextUri, starts, requestLog, watch, last>>

storeData == <<transcripts, currentScenario, clarificationContext>>
storeTimer == <<durationInterval, leakedIntervals>>
audioVars == <<recording, recordingDuration, svcDurationInterval, svcLeakedIntervals>>
fileVars == <<files, deleteCalls>>
apiVars == <<scenario, clarificationState, nextClarificationId>>
expiryVars == <<resultTimers, clarificationTimers>>
ghostVars == <<nextUri, starts, requestLog>>

(* ------------------------------ values -------------------------------- *)
NoUri == 0
Uris == 1..MaxStarts
ApiScenario == {"success", "clarification", "networkError", "serverError"}

PermissionDeniedMessage == "Microphone access is required to record audio. Please grant permission in your device settings."
StartFailedMessage == "Failed to start recording. Please try again."
StopFailedMessage == "Failed to stop recording. Please try again."
DefaultErrorMessage == "Something went wrong. Please try again."
NetworkErrorMessage == "Network error. Please try again."
SuccessTranscript == "Added 'milk' to your shopping list."
FollowUpTranscript == "Alarm set for 7:00 AM."
ClarificationPrompt == "What time should I set it for?"

Idle == [status |-> "idle"]
CheckingPermission == [status |-> "checkingPermission"]
PermissionDenied == [status |-> "permissionDenied", message |-> PermissionDeniedMessage]
Listening(d) == [status |-> "listening", duration |-> d]
Recorded(d, uri) == [status |-> "recorded", duration |-> d, audioUri |-> uri]
Processing == [status |-> "processing"]
Result(text) == [status |-> "result", transcript |-> text]
Clarification(prompt, id) == [status |-> "clarification", prompt |-> prompt, clarificationId |-> id]
ErrorState(message, errorType) == [status |-> "error", message |-> message, errorType |-> errorType]
ErrorWithAudio(message, errorType, uri, d) ==
    [status |-> "error", message |-> message, errorType |-> errorType, audioUri |-> uri, duration |-> d]

AudioUriOf_undefined(s) == NoUri

\* currentState.audioUri, with JavaScript's undefined read as NoUri
AudioUriOf(s) == IF "audioUri" \in DOMAIN s THEN s.audioUri ELSE NoUri

(* ------------------------------ tasks --------------------------------- *)
\* A suspended async handler: which handler, the await it is parked at, and
\* the locals it still reads after resuming.
Task(fn, pc, uri, d, ctx) == [fn |-> fn, pc |-> pc, uri |-> uri, duration |-> d, ctx |-> ctx]
Parked(fn, pc) == {t \in BagToSet(tasks) : t.fn = fn /\ t.pc = pc}
Spawn(t) == tasks' = tasks (+) SetToBag({t})
Move(t, u) == tasks' = (tasks (-) SetToBag({t})) (+) SetToBag({u})
Finish(t) == tasks' = tasks (-) SetToBag({t})
CanSpawn == BagCardinality(tasks) < MaxTasks
\* Observation only: a step whose name is watched is recorded with the store state
\* it started from; nothing in the program reads watch or last.
Step(op, arg) ==
    /\ last' = IF op \in watch THEN [op |-> op, pre |-> state, arg |-> arg] ELSE last
    /\ UNCHANGED watch

(* --------------------- store: tick timer handle ----------------------- *)
\* if (durationInterval) { clearInterval(durationInterval); durationInterval = null; }
clearDurationInterval ==
    /\ durationInterval' = FALSE
    /\ UNCHANGED leakedIntervals

\* durationInterval = setInterval(...): a timer whose handle is overwritten keeps running
setDurationInterval ==
    /\ durationInterval' = TRUE
    /\ leakedIntervals' = leakedIntervals + (IF durationInterval THEN 1 ELSE 0)

(* --------------------- AudioService.startRecording -------------------- *)
\* catch block of AudioService.startRecording / stopRecording / cancelRecording
AudioService_cleanup ==
    /\ recording' = NoUri
    /\ recordingDuration' = 0
    /\ svcDurationInterval' = FALSE
    /\ UNCHANGED svcLeakedIntervals

\* this.recording = recording; this.recordingDuration = 0; this.durationInterval = setInterval(...)
AudioService_started(uri) ==
    /\ recording' = uri
    /\ recordingDuration' = 0
    /\ svcDurationInterval' = TRUE
    /\ svcLeakedIntervals' = svcLeakedIntervals + (IF svcDurationInterval THEN 1 ELSE 0)

(* --------------------- store: startRecording -------------------------- *)
\* set({ state: { status: 'listening', duration: 0 } }); durationInterval = setInterval(...)
startRecording_listening(t) ==
    /\ state' = Listening(0)
    /\ setDurationInterval
    /\ Finish(t)

startRecording_catch_asNetwork(t) ==
    /\ state' = ErrorState(StartFailedMessage, "network")
    /\ UNCHANGED storeTimer
    /\ Finish(t)

\* catch (error) { set({ state: { status: 'error', ..., errorType: 'server' } }) }
startRecording_catch(t) ==
    /\ state' = ErrorState(StartFailedMessage, "server")
    /\ UNCHANGED storeTimer
    /\ Finish(t)

startRecording_denied_noMessage(t) ==
    /\ state' = [status |-> "permissionDenied"]
    /\ UNCHANGED storeTimer
    /\ Finish(t)

startRecording_denied_noSet(t) ==
    /\ UNCHANGED <<state, storeTimer>>
    /\ Finish(t)

startRecording_denied_startsAnyway(t) ==
    /\ state' = Listening(0)
    /\ UNCHANGED storeTimer
    /\ Finish(t)

\* set({ state: { status: 'permissionDenied', ... } }); return
startRecording_denied(t) ==
    /\ state' = PermissionDenied
    /\ UNCHANGED storeTimer
    /\ Finish(t)

\* await AudioService.startRecording(): the call and its synchronous prefix.
\* With a capture already referenced the Recorder returns at once and the
\* store goes on to Listening; otherwise it parks at Audio.setAudioModeAsync.
startRecording_callRecorder(t) ==
    IF recording # NoUri
    THEN startRecording_listening(t)
    ELSE /\ Move(t, [t EXCEPT !.pc = "setAudioModeAsync"])
         /\ UNCHANGED <<state, storeTimer>>

\* The intent: set({ state: { status: 'checkingPermission' } }); await AudioService.checkPermission()
startRecording_enter(op) ==
    /\ starts < MaxStarts
    /\ CanSpawn
    /\ state' = CheckingPermission
    /\ Spawn(Task("startRecording", "checkPermission", NoUri, 0, <<>>))
    /\ starts' = starts + 1
    /\ Step(op, "")
    /\ UNCHANGED <<storeVersion, storeData, storeTimer, audioVars, fileVars, apiVars,
                   expiryVars, nextUri, requestLog>>

startRecording == startRecording_enter("startRecording")

\* retryPermission: const { startRecording } = get(); await startRecording()
retryPermission == startRecording_enter("retryPermission")

\* Audio.getPermissionsAsync() resolved (a rejection is caught and reads as false)
startRecording_afterCheckPermission(hasPermission) ==
    \E t \in Parked("startRecording", "checkPermission") :
        /\ IF hasPermission
           THEN startRecording_callRecorder(t)
           ELSE /\ Move(t, [t EXCEPT !.pc = "requestPermission"])
                /\ UNCHANGED <<state, storeTimer>>
        /\ Step("checkPermission", IF hasPermission THEN "granted" ELSE "notGranted")
        /\ UNCHANGED <<storeVersion, storeData, audioVars, fileVars, apiVars, expiryVars, ghostVars>>

\* Audio.requestPermissionsAsync() resolved (a rejection is caught and reads as false)
startRecording_afterRequestPermission(granted) ==
    \E t \in Parked("startRecording", "requestPermission") :
        /\ IF granted
           THEN startRecording_callRecorder(t)
           ELSE startRecording_denied(t)
        /\ Step("requestPermission", IF granted THEN "granted" ELSE "denied")
        /\ UNCHANGED <<storeVersion, storeData, audioVars, fileVars, apiVars, expiryVars, ghostVars>>

\* Audio.setAudioModeAsync({allowsRecordingIOS: true, ...}) settled inside AudioService.startRecording
startRecording_afterSetAudioMode(ok) ==
    \E t \in Parked("startRecording", "setAudioModeAsync") :
        /\ IF ok
           THEN /\ Move(t, [t EXCEPT !.pc = "createAsync"])
                /\ UNCHANGED <<state, storeTimer, audioVars>>
           ELSE /\ AudioService_cleanup
                /\ startRecording_catch(t)
        /\ Step("startSetAudioMode", IF ok THEN "ok" ELSE "throw")
        /\ UNCHANGED <<storeVersion, storeData, fileVars, apiVars, expiryVars, ghostVars>>

\* Audio.Recording.createAsync(...) settled inside AudioService.startRecording
startRecording_afterCreate(ok) ==
    \E t \in Parked("startRecording", "createAsync") :
        /\ IF ok
           THEN /\ AudioService_started(nextUri + 1)
                /\ nextUri' = nextUri + 1
                /\ files' = files \cup {nextUri + 1}
                /\ startRecording_listening(t)
           ELSE /\ AudioService_cleanup
                /\ startRecording_catch(t)
                /\ UNCHANGED <<nextUri, files>>
        /\ Step("createAsync", IF ok THEN "ok" ELSE "throw")
        /\ UNCHANGED <<storeVersion, storeData, deleteCalls, apiVars, expiryVars,
                       starts, requestLog>>

(* --------------------- files ------------------------------------------ *)
\* AudioService.deleteFile(uri) and file.delete(): the file is removed if present
\* (an absent file is logged, not an error).  The platform's delete is taken to
\* succeed; deleteCalls counts the requests.
FileDelete_keepsFile(uri) ==
    /\ UNCHANGED files
    /\ deleteCalls' = [deleteCalls EXCEPT ![uri] = @ + 1]

FileDelete(uri) ==
    /\ files' = files \ {uri}
    /\ deleteCalls' = [deleteCalls EXCEPT ![uri] = @ + 1]

(* --------------------- StubVoiceApi ----------------------------------- *)
handleSuccess_otherText == [kind |-> "ok", transcript |-> FollowUpTranscript]

\* The value processVoice settles with once simulateDelay has elapsed, read from
\* the scenario selected at that moment; ctx is input.context (<<>> when undefined).
handleSuccess == [kind |-> "ok", transcript |-> SuccessTranscript]
createNetworkError == [kind |-> "error", code |-> "NETWORK", message |-> NetworkErrorMessage]
createServerError == [kind |-> "error", code |-> "SERVER", message |-> DefaultErrorMessage]

\* callCount > 0 for input.context.clarificationId
IsFollowUp(ctx) == ctx # <<>> /\ ctx[1].clarificationId \in clarificationState

handleClarification_rejectsStale(ctx) ==
    IF IsFollowUp(ctx)
    THEN [kind |-> "ok", transcript |-> FollowUpTranscript]
    ELSE IF ctx # <<>>
         THEN createServerError
         ELSE [kind |-> "clarification", prompt |-> ClarificationPrompt,
               clarificationId |-> nextClarificationId + 1]

\* handleClarification: the value returned
handleClarification(ctx) ==
    IF IsFollowUp(ctx)
    THEN [kind |-> "ok", transcript |-> FollowUpTranscript]
    ELSE [kind |-> "clarification", prompt |-> ClarificationPrompt,
          clarificationId |-> nextClarificationId + 1]

processVoice(ctx) ==
    CASE scenario = "success" -> handleSuccess
      [] scenario = "clarification" -> handleClarification(ctx)
      [] scenario = "networkError" -> createNetworkError
      [] scenario = "serverError" -> createServerError

processVoice_effect_keepsId(ctx) ==
    IF scenario = "clarification" /\ ~IsFollowUp(ctx)
    THEN /\ clarificationState' = clarificationState \cup {nextClarificationId + 1}
         /\ nextClarificationId' = nextClarificationId + 1
    ELSE UNCHANGED <<clarificationState, nextClarificationId>>

\* what handleClarification does to the service's bookkeeping
processVoice_effect(ctx) ==
    IF scenario = "clarification"
    THEN IF IsFollowUp(ctx)
         THEN /\ clarificationState' = clarificationState \ {ctx[1].clarificationId}
              /\ UNCHANGED nextClarificationId
         ELSE /\ clarificationState' = clarificationState \cup {nextClarificationId + 1}
              /\ nextClarificationId' = nextClarificationId + 1
    ELSE UNCHANGED <<clarificationState, nextClarificationId>>

voiceApi_setScenario_keepsState(s) ==
    /\ scenario' = s
    /\ UNCHANGED <<clarificationState, nextClarificationId>>

\* StubVoiceApi.setScenario
voiceApi_setScenario(s) ==
    /\ scenario' = s
    /\ clarificationState' = {}
    /\ UNCHANGED nextClarificationId

(* --------------------- store: transcription request ------------------- *)
\* const input = { audioUri, ..., context: clarificationContext ? {...} : undefined };
\* await voiceApi.processVoice(input)
RequestInput(uri) == [audioUri |-> uri, context |-> clarificationContext]

\* generateUUID(): a fresh id; the history is append-only, so its length + 1 is fresh
generateUUID == Len(transcripts) + 1

prependTranscript_dropHistory(entry) == <<entry>>
prependTranscript_atTail(entry) == Append(transcripts, entry)

\* transcripts: [transcript, ...state.transcripts]
prependTranscript(entry) == <<entry>> \o transcripts

\* error?.kind === 'error'
IsApiError(r) == "kind" \in DOMAIN r /\ r.kind = "error"

\* let errorType = 'server'; if (error?.kind === 'error') errorType = error.code === 'NETWORK' ? 'network' : 'server'
errorTypeOf(r) == IF IsApiError(r) /\ r.code = "NETWORK" THEN "network" ELSE "server"

errorMessageOf_raw(r) == r.message

\* let errorMessage = 'Something went wrong. Please try again.'; if (error?.kind === 'error') errorMessage = error.message
errorMessageOf(r) == IF IsApiError(r) THEN r.message ELSE DefaultErrorMessage

\* result.kind === 'ok' branch (both copies); v2 keeps the audioUri in the entry
onOk(text, uri) ==
    /\ transcripts' = prependTranscript(
           IF storeVersion = 2
           THEN [id |-> generateUUID, text |-> text, audioUri |-> uri]
           ELSE [id |-> generateUUID, text |-> text])
    /\ state' = Result(text)
    /\ clarificationContext' = <<>>
    /\ resultTimers' = resultTimers \cup {Len(transcripts')}
    /\ UNCHANGED clarificationTimers

onClarification_forgetsContext(r) ==
    /\ clarificationContext' = <<>>
    /\ state' = Clarification(r.prompt, r.clarificationId)
    /\ clarificationTimers' = clarificationTimers \cup {r.clarificationId}
    /\ UNCHANGED <<transcripts, resultTimers>>

\* result.kind === 'clarification' branch (both copies)
onClarification(r) ==
    /\ clarificationContext' = <<[clarificationId |-> r.clarificationId, previousPrompt |-> r.prompt]>>
    /\ state' = Clarification(r.prompt, r.clarificationId)
    /\ clarificationTimers' = clarificationTimers \cup {r.clarificationId}
    /\ UNCHANGED <<transcripts, resultTimers>>

\* the state the v2 catch block of saveRecording / retrySendRecording sets
errorAfterTranscription(r, uri, d) ==
    IF errorTypeOf(r) = "network"
    THEN ErrorWithAudio(errorMessageOf(r), "network", uri, d)
    ELSE ErrorState(errorMessageOf(r), "server")

onRejected_v2_alwaysDeletes(r, uri, d) ==
    /\ FileDelete(uri)
    /\ state' = errorAfterTranscription(r, uri, d)
    /\ UNCHANGED <<transcripts, clarificationContext, expiryVars, storeTimer>>

\* v2 catch block: keep audio file on network error, delete on server error
onRejected_v2(r, uri, d) ==
    /\ IF errorTypeOf(r) = "server"
       THEN FileDelete(uri)
       ELSE UNCHANGED fileVars
    /\ state' = errorAfterTranscription(r, uri, d)
    /\ UNCHANGED <<transcripts, clarificationContext, expiryVars, storeTimer>>

\* v1 catch block: clears the tick timer; the file is not touched
onRejected_v1(r) ==
    /\ clearDurationInterval
    /\ state' = ErrorState(errorMessageOf(r), errorTypeOf(r))
    /\ UNCHANGED <<transcripts, clarificationContext, expiryVars, fileVars>>

\* voiceApi.processVoice(input) settled: the simulated delay elapsed, the service
\* computed its answer and the awaiting store handler ran to its end.
afterProcessVoice ==
    \E t \in {u \in BagToSet(tasks) : u.pc = "processVoice"} :
      LET r == processVoice(t.ctx) IN
        /\ processVoice_effect(t.ctx)
        /\ UNCHANGED scenario
        /\ Finish(t)
        /\ CASE r.kind = "ok" ->
                  /\ onOk(r.transcript, t.uri)
                  /\ IF storeVersion = 1 THEN FileDelete(t.uri) ELSE UNCHANGED fileVars
                  /\ UNCHANGED storeTimer
             [] r.kind = "clarification" ->
                  /\ onClarification(r)
                  /\ IF storeVersion = 1 THEN FileDelete(t.uri) ELSE UNCHANGED fileVars
                  /\ UNCHANGED storeTimer
             [] r.kind = "error" ->
                  IF storeVersion = 2
                  THEN onRejected_v2(r, t.uri, t.duration)
                  ELSE onRejected_v1(r)
        /\ Step("processVoice", IF r.kind = "error" THEN r.code ELSE r.kind)
        /\ UNCHANGED <<storeVersion, currentScenario, audioVars, ghostVars>>

\* set({ state: { status: 'processing' } }); ...; await voiceApi.processVoice(input)
issueRequest(fn, uri, d) ==
    /\ Len(requestLog) < MaxRequests
    /\ state' = Processing
    /\ requestLog' = Append(requestLog, RequestInput(uri))
    /\ Spawn(Task(fn, "processVoice", uri, d, clarificationContext))

saveRecording_anyState ==
    /\ storeVersion = 2
    /\ CanSpawn
    /\ issueRequest("saveRecording", AudioUriOf(state), 0)
    /\ Step("saveRecording", "sent")
    /\ UNCHANGED <<storeVersion, storeData, storeTimer, audioVars, fileVars, apiVars,
                   expiryVars, nextUri, starts>>

\* v2 saveRecording
saveRecording ==
    /\ storeVersion = 2
    /\ IF state.status # "recorded"
       THEN /\ Step("saveRecording", "ignored")
            /\ UNCHANGED <<state, requestLog, tasks>>
       ELSE /\ CanSpawn
            /\ issueRequest("saveRecording", state.audioUri, state.duration)
            /\ Step("saveRecording", "sent")
    /\ UNCHANGED <<storeVersion, storeData, storeTimer, audioVars, fileVars, apiVars,
                   expiryVars, nextUri, starts>>

\* v2 retrySendRecording
retrySendRecording ==
    /\ storeVersion = 2
    /\ IF state.status # "error" \/ AudioUriOf(state) = NoUri
       THEN /\ Step("retrySendRecording", "ignored")
            /\ UNCHANGED <<state, requestLog, tasks>>
       ELSE /\ CanSpawn
            /\ issueRequest("retrySendRecording", state.audioUri, state.duration)
            /\ Step("retrySendRecording", "sent")
    /\ UNCHANGED <<storeVersion, storeData, storeTimer, audioVars, fileVars, apiVars,
                   expiryVars, nextUri, starts>>

(* --------------------- store: stopRecording --------------------------- *)
\* AudioService.stopRecording up to its first await: clears the polling timer and
\* calls this.recording.stopAndUnloadAsync()
AudioService_stopRecording_call ==
    /\ svcDurationInterval' = FALSE
    /\ UNCHANGED <<recording, recordingDuration, svcLeakedIntervals>>

\* stop handlers that have not yet issued their transcription request (v1)
RECURSIVE CopiesOf(_, _)
CopiesOf(S, b) ==
    IF S = {} THEN 0
    ELSE LET t == CHOOSE x \in S : TRUE IN CopiesIn(t, b) + CopiesOf(S \ {t}, b)
StopsInFlight == CopiesOf({t \in BagToSet(tasks) : t.fn = "stopRecording"
                                                 /\ t.pc # "processVoice"}, tasks)

\* v2 stopRecording, the intent
stopRecording_v2 ==
    /\ storeVersion = 2
    /\ CASE state.status # "listening" ->
              /\ Step("stopRecording", "ignored")
              /\ UNCHANGED <<state, storeTimer, audioVars, tasks>>
         [] state.status = "listening" /\ recording = NoUri ->
              /\ clearDurationInterval
              /\ state' = Idle
              /\ Step("stopRecording", "noCapture")
              /\ UNCHANGED <<audioVars, tasks>>
         [] state.status = "listening" /\ recording # NoUri ->
              /\ CanSpawn
              /\ clearDurationInterval
              /\ AudioService_stopRecording_call
              /\ Spawn(Task("stopRecording", "stopAndUnloadAsync", recording, 0, <<>>))
              /\ Step("stopRecording", "stopping")
              /\ UNCHANGED state
    /\ UNCHANGED <<storeVersion, storeData, fileVars, apiVars, expiryVars, nextUri,
                   starts, requestLog>>

\* v1 stopRecording, the intent: no state check; with no capture the Recorder
\* throws at once and the catch block sets Error
stopRecording_v1 ==
    /\ storeVersion = 1
    /\ IF recording = NoUri
       THEN /\ AudioService_cleanup
            /\ clearDurationInterval
            /\ state' = ErrorState(DefaultErrorMessage, "server")
            /\ Step("stopRecording", "noCapture")
            /\ UNCHANGED <<tasks>>
       ELSE /\ CanSpawn
            /\ Len(requestLog) + StopsInFlight < MaxRequests
            /\ clearDurationInterval
            /\ AudioService_stopRecording_call
            /\ Spawn(Task("stopRecording", "stopAndUnloadAsync", recording, 0, <<>>))
            /\ Step("stopRecording", "stopping")
            /\ UNCHANGED state
    /\ UNCHANGED <<storeVersion, storeData, fileVars, apiVars, expiryVars, nextUri,
                   starts, requestLog>>

\* catch block of the store's stopRecording after AudioService.stopRecording threw
stopRecording_catch ==
    /\ clearDurationInterval
    /\ state' = ErrorState(IF storeVersion = 2 THEN StopFailedMessage ELSE DefaultErrorMessage,
                           "server")

\* this.recording.stopAndUnloadAsync() settled inside AudioService.stopRecording.
\* outcome "ok": this.recording.getURI() is read from the capture referenced now;
\* a reference nulled in the meantime makes that read throw, as does a null URI.
stopRecording_afterStopAndUnload(outcome) ==
    \E t \in Parked("stopRecording", "stopAndUnloadAsync") :
        /\ IF outcome = "ok" /\ recording # NoUri
           THEN /\ Move(t, [t EXCEPT !.pc = "setAudioModeAsync", !.uri = recording,
                                     !.duration = recordingDuration])
                /\ UNCHANGED <<state, storeTimer, audioVars>>
           ELSE /\ AudioService_cleanup
                /\ stopRecording_catch
                /\ Finish(t)
        /\ Step("stopAndUnloadAsync", IF outcome = "ok" /\ recording = NoUri THEN "typeError" ELSE outcome)
        /\ UNCHANGED <<storeVersion, storeData, fileVars, apiVars, expiryVars, ghostVars>>

\* Audio.setAudioModeAsync({allowsRecordingIOS: false}) settled inside
\* AudioService.stopRecording; on success the Recorder returns {uri, duration, mimeType}
stopRecording_afterSetAudioMode(ok) ==
    \E t \in Parked("stopRecording", "setAudioModeAsync") :
        /\ IF ok
           THEN /\ recording' = NoUri
                /\ recordingDuration' = 0
                /\ UNCHANGED <<svcDurationInterval, svcLeakedIntervals, storeTimer>>
                /\ IF storeVersion = 2
                   THEN /\ state' = Recorded(t.duration, t.uri)
                        /\ Finish(t)
                        /\ UNCHANGED requestLog
                   ELSE /\ state' = Processing
                        /\ requestLog' = Append(requestLog, RequestInput(t.uri))
                        /\ Move(t, [t EXCEPT !.pc = "processVoice", !.ctx = clarificationContext])
           ELSE /\ AudioService_cleanup
                /\ stopRecording_catch
                /\ Finish(t)
                /\ UNCHANGED requestLog
        /\ Step("stopSetAudioMode", IF ok THEN "ok" ELSE "throw")
        /\ UNCHANGED <<storeVersion, storeData, fileVars, apiVars, expiryVars, nextUri,
                       starts>>

(* --------------------- AudioService.cancelRecording ------------------- *)
\* AudioService.cancelRecording() up to its first await.  With no capture it
\* returns; otherwise it clears the polling timer, reads the URI and calls
\* this.recording.stopAndUnloadAsync().
AudioService_cancelRecording_call ==
    IF recording = NoUri
    THEN UNCHANGED <<audioVars, tasks>>
    ELSE /\ CanSpawn
         /\ svcDurationInterval' = FALSE
         /\ UNCHANGED <<recording, recordingDuration, svcLeakedIntervals>>
         /\ Spawn(Task("cancelRecording", "stopAndUnloadAsync", recording, 0, <<>>))

\* stopAndUnloadAsync() settled inside AudioService.cancelRecording
cancelRecording_afterStopAndUnload(ok) ==
    \E t \in Parked("cancelRecording", "stopAndUnloadAsync") :
        /\ IF ok
           THEN /\ Move(t, [t EXCEPT !.pc = "setAudioModeAsync"])
                /\ UNCHANGED audioVars
           ELSE /\ AudioService_cleanup
                /\ Finish(t)
        /\ Step("cancelStopAndUnload", IF ok THEN "ok" ELSE "throw")
        /\ UNCHANGED <<storeVersion, state, storeData, storeTimer, fileVars, apiVars,
                       expiryVars, ghostVars>>

\* setAudioModeAsync() settled inside AudioService.cancelRecording; on success the
\* file is deleted (a failing delete is logged) and the capture reference cleared
cancelRecording_afterSetAudioMode(ok) ==
    \E t \in Parked("cancelRecording", "setAudioModeAsync") :
        /\ IF ok
           THEN /\ FileDelete(t.uri)
                /\ recording' = NoUri
                /\ recordingDuration' = 0
                /\ UNCHANGED <<svcDurationInterval, svcLeakedIntervals>>
           ELSE /\ AudioService_cleanup
                /\ UNCHANGED fileVars
        /\ Finish(t)
        /\ Step("cancelSetAudioMode", IF ok THEN "ok" ELSE "throw")
        /\ UNCHANGED <<storeVersion, state, storeData, storeTimer, apiVars, expiryVars, ghostVars>>

(* --------------------- store: cancel / dismiss / scenario ------------- *)
\* v2 cancelRecording
cancelRecording_v2 ==
    /\ storeVersion = 2
    /\ CASE state.status = "listening" ->
              /\ clearDurationInterval
              /\ AudioService_cancelRecording_call
              /\ state' = Idle
              /\ Step("cancelRecording", "listening")
              /\ UNCHANGED fileVars
         [] state.status = "recorded" ->
              /\ FileDelete(state.audioUri)
              /\ state' = Idle
              /\ Step("cancelRecording", "recorded")
              /\ UNCHANGED <<storeTimer, audioVars, tasks>>
         [] OTHER ->
              /\ Step("cancelRecording", "ignored")
              /\ UNCHANGED <<state, storeTimer, audioVars, tasks, fileVars>>
    /\ UNCHANGED <<storeVersion, storeData, apiVars, expiryVars, ghostVars>>

\* v1 cancelRecording: no state check
cancelRecording_v1 ==
    /\ storeVersion = 1
    /\ clearDurationInterval
    /\ AudioService_cancelRecording_call
    /\ state' = Idle
    /\ Step("cancelRecording", "any")
    /\ UNCHANGED <<storeVersion, storeData, fileVars, apiVars, expiryVars, ghostVars>>

\* dismissError: v2 deletes a retained recording first; both set Idle whatever the state
dismissError ==
    /\ IF storeVersion = 2 /\ state.status = "error" /\ AudioUriOf(state) # NoUri
       THEN FileDelete(state.audioUri)
       ELSE UNCHANGED fileVars
    /\ state' = Idle
    /\ Step("dismissError", "")
    /\ UNCHANGED <<storeVersion, storeData, storeTimer, audioVars, apiVars, expiryVars,
                   ghostVars, tasks>>

\* dismissPermissionDenied: set({ state: { status: 'idle' } })
dismissPermissionDenied ==
    /\ state' = Idle
    /\ Step("dismissPermissionDenied", "")
    /\ UNCHANGED <<storeVersion, storeData, storeTimer, audioVars, fileVars, apiVars,
                   expiryVars, ghostVars, tasks>>

\* setScenario: voiceApi.setScenario(scenario); set({ currentScenario: scenario })
setScenario(s) ==
    /\ voiceApi_setScenario(s)
    /\ currentScenario' = s
    /\ Step("setScenario", s)
    /\ UNCHANGED <<storeVersion, state, transcripts, clarificationContext, storeTimer,
                   audioVars, fileVars, expiryVars, ghostVars, tasks>>

(* --------------------- timers ----------------------------------------- *)
tick_unguarded ==
    /\ durationInterval \/ leakedIntervals > 0
    /\ state' = Listening(recordingDuration)
    /\ Step("tick", "")
    /\ UNCHANGED <<storeVersion, storeData, storeTimer, audioVars, fileVars, apiVars,
                   expiryVars, ghostVars, tasks>>

\* the store's setInterval callback (100 ms)
tick ==
    /\ durationInterval \/ leakedIntervals > 0
    /\ state' = IF state.status = "listening" THEN Listening(recordingDuration) ELSE state
    /\ Step("tick", "")
    /\ UNCHANGED <<storeVersion, storeData, storeTimer, audioVars, fileVars, apiVars,
                   expiryVars, ghostVars, tasks>>

\* the Recorder's setInterval callback (100 ms): polls the capture's status and
\* copies durationMillis while the platform reports isRecording
AudioService_poll ==
    /\ svcDurationInterval \/ svcLeakedIntervals > 0
    /\ recording # NoUri
    /\ \E d \in 0..MaxDuration : recordingDuration' = d
    /\ Step("poll", "")
    /\ UNCHANGED <<storeVersion, state, storeData, storeTimer, recording, svcDurationInterval,
                   svcLeakedIntervals, fileVars, apiVars, expiryVars, ghostVars, tasks>>

expireResult_keepsState(e) ==
    /\ e \in resultTimers
    /\ resultTimers' = resultTimers \ {e}
    /\ Step("expireResult", "")
    /\ UNCHANGED <<storeVersion, state, storeData, storeTimer, audioVars, fileVars, apiVars,
                   clarificationTimers, ghostVars, tasks>>

\* setTimeout(..., 2000) scheduled on entering Result; e names the Result that
\* scheduled it (the history length it produced), which the callback never reads
expireResult(e) ==
    /\ e \in resultTimers
    /\ resultTimers' = resultTimers \ {e}
    /\ state' = IF state.status = "result" THEN Idle ELSE state
    /\ Step("expireResult", "")
    /\ UNCHANGED <<storeVersion, storeData, storeTimer, audioVars, fileVars, apiVars,
                   clarificationTimers, ghostVars, tasks>>

\* setTimeout(..., 0) scheduled on entering Clarification; c names the Clarification
\* that scheduled it (its clarificationId), which the callback never reads
expireClarification(c) ==
    /\ c \in clarificationTimers
    /\ clarificationTimers' = clarificationTimers \ {c}
    /\ state' = IF state.status = "clarification" THEN Idle ELSE state
    /\ Step("expireClarification", "")
    /\ UNCHANGED <<storeVersion, storeData, storeTimer, audioVars, fileVars, apiVars,
                   resultTimers, ghostVars, tasks>>

(* --------------------- host ------------------------------------------- *)
\* RootLayout's AppState listener, active -> inactive|background:
\* if (AudioService.isRecording()) await AudioService.cancelRecording()
appBackgrounded ==
    /\ recording # NoUri
    /\ AudioService_cancelRecording_call
    /\ Step("appBackgrounded", "")
    /\ UNCHANGED <<storeVersion, state, storeData, storeTimer, fileVars, apiVars,
                   expiryVars, ghostVars>>

(* ------------------------------ Init ---------------------------------- *)
InitProgram ==
    /\ state = Idle
    /\ transcripts = <<>>
    /\ currentScenario = "success"
    /\ clarificationContext = <<>>
    /\ durationInterval = FALSE
    /\ leakedIntervals = 0
    /\ recording = NoUri
    /\ recordingDuration = 0
    /\ svcDurationInterval = FALSE
    /\ svcLeakedIntervals = 0
    /\ files = {}
    /\ deleteCalls = [u \in Uris |-> 0]
    /\ scenario = "success"
    /\ clarificationState = {}
    /\ nextClarificationId = 0
    /\ tasks = EmptyBag
    /\ resultTimers = {}
    /\ clarificationTimers = {}
    /\ nextUri = 0
    /\ starts = 0
    /\ requestLog = <<>>
    /\ last = [op |-> "init", pre |-> Idle, arg |-> ""]

Init ==
    /\ storeVersion \in {1, 2}
    /\ watch = {}
    /\ InitProgram

\* user intents
Intents ==
    \/ startRecording
    \/ retryPermission
    \/ stopRecording_v1
    \/ stopRecording_v2
    \/ saveRecording
    \/ retrySendRecording
    \/ cancelRecording_v1
    \/ cancelRecording_v2
    \/ dismissError
    \/ dismissPermissionDenied
    \/ \E s \in ApiScenario : setScenario(s)

\* platform promises and the transcription round trip settling
Completions ==
    \/ \E hasPermission \in BOOLEAN : startRecording_afterCheckPermission(hasPermission)
    \/ \E granted \in BOOLEAN : startRecording_afterRequestPermission(granted)
    \/ \E ok \in BOOLEAN : startRecording_afterSetAudioMode(ok)
    \/ \E ok \in BOOLEAN : startRecording_afterCreate(ok)
    \/ \E outcome \in {"ok", "throw", "noUri"} : stopRecording_afterStopAndUnload(outcome)
    \/ \E ok \in BOOLEAN : stopRecording_afterSetAudioMode(ok)
    \/ afterProcessVoice
    \/ \E ok \in BOOLEAN : cancelRecording_afterStopAndUnload(ok)
    \/ \E ok \in BOOLEAN : cancelRecording_afterSetAudioMode(ok)

\* timer callbacks and the host's lifecycle hook
Timers ==
    \/ tick
    \/ AudioService_poll
    \/ \E e \in resultTimers : expireResult(e)
    \/ \E c \in clarificationTimers : expireClarification(c)
    \/ appBackgrounded

Next == Intents \/ Completions \/ Timers

Spec == Init /\ [][Next]_vars

\* the copy of the store with the 'recorded' state alone
InitV2 == storeVersion = 2 /\ watch = {} /\ InitProgram
NextV2 ==
    \/ startRecording
    \/ retryPermission
    \/ stopRecording_v2
    \/ saveRecording
    \/ retrySendRecording
    \/ cancelRecording_v2
    \/ dismissError
    \/ dismissPermissionDenied
    \/ \E s \in ApiScenario : setScenario(s)
    \/ Completions
    \/ Timers
SpecV2 == InitV2 /\ [][NextV2]_vars

\* the copy of the store without the 'recorded' state alone
InitV1 == storeVersion = 1 /\ watch = {} /\ InitProgram
NextV1 ==
    \/ startRecording
    \/ retryPermission
    \/ stopRecording_v1
    \/ cancelRecording_v1
    \/ dismissError
    \/ dismissPermissionDenied
    \/ \E s \in ApiScenario : setScenario(s)
    \/ Completions
    \/ Timers
SpecV1 == InitV1 /\ [][NextV1]_vars

\* every awaited collaborator call (platform promise, transcription round trip)
\* eventually settles
Fairness ==
    /\ WF_vars(\E b \in BOOLEAN : startRecording_afterCheckPermission(b))
    /\ WF_vars(\E b \in BOOLEAN : startRecording_afterRequestPermission(b))
    /\ WF_vars(\E b \in BOOLEAN : startRecording_afterSetAudioMode(b))
    /\ WF_vars(\E b \in BOOLEAN : startRecording_afterCreate(b))
    /\ WF_vars(\E o \in {"ok", "throw", "noUri"} : stopRecording_afterStopAndUnload(o))
    /\ WF_vars(\E b \in BOOLEAN : stopRecording_afterSetAudioMode(b))
    /\ WF_vars(afterProcessVoice)
    /\ WF_vars(\E b \in BOOLEAN : cancelRecording_afterStopAndUnload(b))
    /\ WF_vars(\E b \in BOOLEAN : cancelRecording_afterSetAudioMode(b))
FairSpec == Spec /\ Fairness

\* The cancel-mid-recording scenario: the user presses start from a resting state
\* with nothing in flight and, once Listening, cancels; no stop is ever issued.
\* The platform answers as it likes.  The start and the steps of the cancel path
\* are recorded in last.
CancelSteps == {"cancelRecording", "cancelStopAndUnload", "cancelSetAudioMode"}
InitCancelScenario ==
    /\ storeVersion \in {1, 2}
    /\ watch = CancelSteps \cup {"startRecording"}
    /\ InitProgram
scenarioStart ==
    /\ tasks = EmptyBag
    /\ state.status \in {"idle", "permissionDenied", "error"}
    /\ startRecording
scenarioCancel_v1 == state.status = "listening" /\ cancelRecording_v1
scenarioCancel_v2 == state.status = "listening" /\ cancelRecording_v2
NextCancelScenario ==
    \/ scenarioStart
    \/ scenarioCancel_v1
    \/ scenarioCancel_v2
    \/ \E hasPermission \in BOOLEAN : startRecording_afterCheckPermission(hasPermission)
    \/ \E granted \in BOOLEAN : startRecording_afterRequestPermission(granted)
    \/ \E ok \in BOOLEAN : startRecording_afterSetAudioMode(ok)
    \/ \E ok \in BOOLEAN : startRecording_afterCreate(ok)
    \/ \E ok \in BOOLEAN : cancelRecording_afterStopAndUnload(ok)
    \/ \E ok \in BOOLEAN : cancelRecording_afterSetAudioMode(ok)
    \/ tick
    \/ AudioService_poll
SpecCancelScenario == InitCancelScenario /\ [][NextCancelScenario]_vars

\* Capture cycles by a user who follows the buttons the screen offers: a
\* scenario is picked while Idle with no clarification pending, recording is
\* started from Idle with nothing in flight, stopped once while Listening, saved
\* from Recorded, and an Error is dismissed.  Permission ends up granted and the
\* platform's recording calls succeed; the transcription answers by the scenario.
cycleSetScenario(s) ==
    /\ state = Idle
    /\ tasks = EmptyBag
    /\ clarificationContext = <<>>
    /\ setScenario(s)
cycleStart == state = Idle /\ tasks = EmptyBag /\ startRecording
cycleStop_v1 == state.status = "listening" /\ tasks = EmptyBag /\ stopRecording_v1
cycleStop_v2 == state.status = "listening" /\ tasks = EmptyBag /\ stopRecording_v2
cycleSave == state.status = "recorded" /\ saveRecording
cycleDismissError == state.status = "error" /\ tasks = EmptyBag /\ dismissError
InitCycle == storeVersion \in {1, 2} /\ watch = {} /\ InitProgram
NextCycle ==
    \/ \E s \in ApiScenario : cycleSetScenario(s)
    \/ cycleStart
    \/ cycleStop_v1
    \/ cycleStop_v2
    \/ cycleSave
    \/ cycleDismissError
    \/ \E hasPermission \in BOOLEAN : startRecording_afterCheckPermission(hasPermission)
    \/ startRecording_afterRequestPermission(TRUE)
    \/ startRecording_afterSetAudioMode(TRUE)
    \/ startRecording_afterCreate(TRUE)
    \/ stopRecording_afterStopAndUnload("ok")
    \/ stopRecording_afterSetAudioMode(TRUE)
    \/ afterProcessVoice
    \/ tick
    \/ AudioService_poll
    \/ \E e \in resultTimers : expireResult(e)
    \/ \E c \in clarificationTimers : expireClarification(c)
SpecCycle == InitCycle /\ [][NextCycle]_vars

\* the program as in Spec, with every dismissError recorded in last
InitDismissObserved == storeVersion \in {1, 2} /\ watch = {"dismissError"} /\ InitProgram
SpecDismissObserved == InitDismissObserved /\ [][Next]_vars

(* ====================================================================== *)
(* Properties                                                             *)
(* ====================================================================== *)

\* a transcription settles with kind 'ok' in this step
ResolvesOk ==
    \E t \in {u \in BagToSet(tasks) : u.pc = "processVoice"} :
        /\ processVoice(t.ctx).kind = "ok"
        /\ tasks' = tasks (-) SetToBag({t})

\* C1: whatever the step (intent, completion, timer), the history either stays
\* as it is or gains exactly one entry at its head with every earlier entry kept
\* in place, and it gains one only in a step in which a transcription settles
\* with kind 'ok'.
C1_HistoryAppendOnly ==
    [][ \/ transcripts' = transcripts
        \/ /\ Len(transcripts') = Len(transcripts) + 1
           /\ Tail(transcripts') = transcripts
           /\ ResolvesOk ]_vars

\* C1 witness: a failure state entered with an earlier transcript still in the history
C1_Witness ==
    /\ Len(transcripts) >= 1
    /\ state.status = "error"
    /\ state.errorType \in {"network", "server"}
    /\ Len(requestLog) = 2

\* C2: a startRecording issued in Listening, Processing or CheckingPermission
\* changes nothing: state, Recorder, tick timer and suspended handlers stay.
C2_StartIgnoredWhileBusy ==
    [][ (startRecording /\ state.status \in {"listening", "processing", "checkingPermission"})
        => UNCHANGED <<state, audioVars, storeTimer, tasks>> ]_vars

\* C3: a stopRecording issued in Listening while an earlier stopRecording is
\* still awaiting the Recorder's stop changes nothing: no second stop is
\* attempted on the capture and no further handler is started.
C3_SecondStopIsNoOp ==
    [][ ((stopRecording_v1 \/ stopRecording_v2)
           /\ state.status = "listening"
           /\ Parked("stopRecording", "stopAndUnloadAsync") # {})
        => UNCHANGED <<state, audioVars, tasks>> ]_vars

\* C4: every Error state with errorType network carries the handle of a file
\* that still exists; every Error state with errorType server carries no
\* handle, and when a transcription's rejection led to it the recording's
\* file is gone on entry.
C4_RetentionLaw ==
    [][ /\ (state'.status = "error" /\ state'.errorType = "network")
            => (AudioUriOf(state') # NoUri /\ AudioUriOf(state') \in files')
        /\ (state'.status = "error" /\ state'.errorType = "server")
            => AudioUriOf(state') = NoUri
        /\ \A t \in {u \in BagToSet(tasks) : u.pc = "processVoice"} :
             (afterProcessVoice /\ tasks' = tasks (-) SetToBag({t})
                /\ processVoice(t.ctx).kind = "error" /\ processVoice(t.ctx).code = "SERVER")
             => t.uri \notin files' ]_vars

\* C5: a transcription that settles when the state is no longer Processing
\* leaves the state as it is.
C5_LateResponseIgnored ==
    [][ (afterProcessVoice /\ state.status # "processing") => state' = state ]_vars

\* C6: a startRecording handler that resumes after an await when the state is
\* no longer CheckingPermission leaves the state as it is.
C6_StartResumptionGuarded ==
    [][ ((\/ \E b \in BOOLEAN : startRecording_afterCheckPermission(b)
          \/ \E b \in BOOLEAN : startRecording_afterRequestPermission(b)
          \/ \E b \in BOOLEAN : startRecording_afterSetAudioMode(b)
          \/ \E b \in BOOLEAN : startRecording_afterCreate(b))
         /\ state.status # "checkingPermission")
        => state' = state ]_vars

\* the Result state now displayed is the one that scheduled timer e
ResultTimerMatches(e) == state.status = "result" /\ e = Len(transcripts)
\* the Clarification state now displayed is the one that scheduled timer c
ClarificationTimerMatches(c) == state.status = "clarification" /\ state.clarificationId = c

\* C7: an auto-expire timer that fires when the state is no longer the Result
\* (Clarification) state that scheduled it changes neither state nor history.
C7_StaleExpiryIsNoOp ==
    [][ /\ \A e \in resultTimers :
             (expireResult(e) /\ ~ResultTimerMatches(e))
             => (state' = state /\ transcripts' = transcripts)
        /\ \A c \in clarificationTimers :
             (expireClarification(c) /\ ~ClarificationTimerMatches(c))
             => (state' = state /\ transcripts' = transcripts) ]_vars

\* Recorder.stop fails: the platform stop throws, the URI is missing, the capture
\* reference was nulled while awaiting, the audio-mode reset throws, or (v1)
\* there is no capture to stop
RecorderStopFails ==
    \/ \E o \in {"ok", "throw", "noUri"} :
         stopRecording_afterStopAndUnload(o) /\ (o # "ok" \/ recording = NoUri)
    \/ stopRecording_afterSetAudioMode(FALSE)
    \/ (stopRecording_v1 /\ recording = NoUri)
\* Recorder.start fails
RecorderStartFails ==
    startRecording_afterSetAudioMode(FALSE) \/ startRecording_afterCreate(FALSE)
\* the transcription round trip settles with a rejection
TranscriptionRejects ==
    \E t \in {u \in BagToSet(tasks) : u.pc = "processVoice"} :
        /\ afterProcessVoice
        /\ tasks' = tasks (-) SetToBag({t})
        /\ processVoice(t.ctx).kind = "error"

\* C8: with every awaited call eventually settling, CheckingPermission leads to
\* Listening, PermissionDenied or Error and Processing leads to Result,
\* Clarification or Error; and the step that handles a failure (permission
\* denied, Recorder.start or Recorder.stop failing, transcription rejected)
\* itself leaves the controller in Idle, PermissionDenied or Error.
C8_NeverStuck ==
    /\ (state.status = "checkingPermission")
         ~> (state.status \in {"listening", "permissionDenied", "error"})
    /\ (state.status = "processing")
         ~> (state.status \in {"result", "clarification", "error"})
    /\ [][ (\/ startRecording_afterRequestPermission(FALSE)
            \/ RecorderStartFails
            \/ RecorderStopFails
            \/ TranscriptionRejects)
           => state'.status \in {"idle", "permissionDenied", "error"} ]_vars

\* C8 witness: a transcription was rejected and the controller sits in Error
C8_Witness ==
    /\ state.status = "error"
    /\ state.message = NetworkErrorMessage
    /\ Len(requestLog) >= 1

Cancelled == last.op \in CancelSteps

AwaitingRequestPermission == Task("startRecording", "requestPermission", NoUri, 0, <<>>)
\* Recorder.start returned to the store in this step: at once because a capture
\* is already referenced, or after createAsync resolved
RecorderStartReturns ==
    \/ startRecording_afterCreate(TRUE)
    \/ (startRecording_afterCheckPermission(TRUE) /\ recording # NoUri)
    \/ (startRecording_afterRequestPermission(TRUE) /\ recording # NoUri)

\* C11: requestPermission resolving false ends that attempt in PermissionDenied
\* with the Recorder untouched and no call into Recorder.start left pending;
\* the state becomes Listening only in a step where permission was granted and
\* Recorder.start returned; and a handler comes to await requestPermission only
\* in the step where checkPermission returned false.
C11_PermissionDenied ==
    [][ /\ startRecording_afterRequestPermission(FALSE)
            => /\ state' = PermissionDenied
               /\ UNCHANGED <<audioVars, nextUri, files>>
               /\ BagCardinality(tasks') = BagCardinality(tasks) - 1
               /\ CopiesIn(AwaitingRequestPermission, tasks')
                    = CopiesIn(AwaitingRequestPermission, tasks) - 1
        /\ (state'.status = "listening" /\ state.status # "listening")
            => RecorderStartReturns
        /\ CopiesIn(AwaitingRequestPermission, tasks') > CopiesIn(AwaitingRequestPermission, tasks)
            => startRecording_afterCheckPermission(FALSE) ]_vars

\* C11 witness: one attempt, checkPermission false, requestPermission false:
\* PermissionDenied with no capture ever created
C11_Witness ==
    /\ state = PermissionDenied
    /\ starts = 1
    /\ nextUri = 0
    /\ recording = NoUri
    /\ tasks = EmptyBag

DirectCycleEdges ==
    { <<"idle", "checkingPermission">>, <<"checkingPermission", "listening">>,
      <<"listening", "processing">>, <<"processing", "result">>, <<"result", "idle">> }
\* the status changes of one start / stop / save cycle through Recorded
RecordedCycleEdges ==
    { <<"idle", "checkingPermission">>, <<"checkingPermission", "listening">>,
      <<"listening", "recorded">>, <<"recorded", "processing">>,
      <<"processing", "result">>, <<"result", "idle">> }
\* what a success cycle shows and records, whatever its edges
SuccessCycleOutcome ==
    /\ (state'.status = "result" /\ state.status # "result")
         => /\ state' = Result(SuccessTranscript)
            /\ Len(transcripts') = Len(transcripts) + 1
            /\ Head(transcripts').text = SuccessTranscript
    /\ (state.status = "result" /\ state'.status = "idle")
         => /\ \E e \in resultTimers : expireResult(e)
            /\ transcripts' = transcripts
            /\ Len(requestLog) = 1 => Len(transcripts) = 1
    /\ state'.status # "result" => transcripts' = transcripts

C14_NetworkErrorCycle ==
    [][ (afterProcessVoice /\ scenario = "networkError")
        => /\ state'.status = "error"
           /\ state'.errorType = "network"
           /\ state'.message = NetworkErrorMessage
           /\ transcripts' = transcripts
           /\ AudioUriOf(state') = requestLog[Len(requestLog)].audioUri
           /\ AudioUriOf(state') \in files' ]_vars

\* C15: when the host is backgrounded while the controller is Listening, the
\* controller is cancelled in that step: the state becomes Idle, the tick timer
\* is stopped and the Recorder's cancel is under way.
C15_BackgroundCancelsController ==
    [][ (appBackgrounded /\ state.status = "listening")
        => /\ state' = Idle
           /\ ~durationInterval'
           /\ Parked("cancelRecording", "stopAndUnloadAsync")' # {} ]_vars

\* the controller holds recording u: its state carries the uri (Recorded, or
\* Error with audio) or a transcription request for it is in flight
HeldBy(u, st, tk) ==
    \/ AudioUriOf(st) = u
    \/ \E t \in BagToSet(tk) : t.pc = "processVoice" /\ t.uri = u

\* C16: in every step, a recording the controller holds and whose file exists
\* is either still held afterwards or its file is deleted in that step, and no
\* recording is asked to be deleted more than once.
C16_RecordingConsumedOnce ==
    [][ \A u \in Uris :
          /\ (HeldBy(u, state, tasks) /\ u \in files)
                => (HeldBy(u, state', tasks') \/ u \notin files')
          /\ deleteCalls'[u] <= 1 ]_vars

\* C17: the step in which a transcription settles with kind 'ok' or
\* 'clarification' requests deletion of the recording that was sent, and the
\* file is gone when Result or Clarification is entered.
C17_FileDeletedOnResponse ==
    [][ \A t \in {u \in BagToSet(tasks) : u.pc = "processVoice"} :
          (/\ afterProcessVoice
           /\ tasks' = tasks (-) SetToBag({t})
           /\ processVoice(t.ctx).kind \in {"ok", "clarification"})
          => /\ t.uri \notin files'
             /\ deleteCalls'[t.uri] = deleteCalls[t.uri] + 1 ]_vars

\* C18: a stopRecording issued in a state other than Listening changes nothing:
\* not the state, the history, the clarification context or the tick timer,
\* and it neither calls the Recorder nor issues a request.
C18_StopOutsideListeningIsNoOp ==
    [][ ((stopRecording_v1 \/ stopRecording_v2) /\ state.status # "listening")
        => UNCHANGED <<state, storeData, storeTimer, audioVars, tasks, requestLog>> ]_vars

\* C19: dismissError outside Error, dismissPermissionDenied outside
\* PermissionDenied and cancelRecording with nothing to cancel (neither
\* Listening nor Recorded) leave the state as it is.
C19_MisuseIsNoOp ==
    [][ (\/ (dismissError /\ state.status # "error")
         \/ (dismissPermissionDenied /\ state.status # "permissionDenied")
         \/ ((cancelRecording_v1 \/ cancelRecording_v2)
               /\ state.status \notin {"listening", "recorded"}))
        => state' = state ]_vars

\* C20: a dismissError issued in Error sets Idle and leaves the history as it
\* is; when the Error state carries an audioUri one deletion of that file is
\* requested and the file is gone, otherwise no file is touched.
C20_DismissError ==
    [][ (dismissError /\ state.status = "error")
        => /\ state' = Idle
           /\ transcripts' = transcripts
           /\ IF "audioUri" \in DOMAIN state
              THEN /\ state.audioUri \notin files'
                   /\ deleteCalls' = [deleteCalls EXCEPT ![state.audioUri] = @ + 1]
              ELSE UNCHANGED fileVars ]_vars

\* C20 witness: the last dismissError was issued in a network Error carrying a
\* recording; the controller is Idle and that recording's file is gone
C20_Witness ==
    /\ last.op = "dismissError"
    /\ last.pre.status = "error"
    /\ last.pre.errorType = "network"
    /\ "audioUri" \in DOMAIN last.pre
    /\ last.pre.audioUri \notin files
    /\ deleteCalls[last.pre.audioUri] >= 1
    /\ state = Idle

\* a request that carried a ClarificationContext settles in this step
SettlesWithContext(t) ==
    /\ t.pc = "processVoice"
    /\ t.ctx # <<>>
    /\ CopiesIn(t, tasks') < CopiesIn(t, tasks)

\* C21: the transcription request that carries the ClarificationContext
\* consumes it whatever its outcome: once that request has settled (ok,
\* clarification, network or server failure) the slot no longer holds the
\* context the request carried, so no later request can carry the same
\* clarificationId.
C21_ContextConsumedByRequest ==
    [][ afterProcessVoice
        => \A t \in BagToSet(tasks) :
               SettlesWithContext(t) => clarificationContext' # t.ctx ]_vars

\* C22: when Clarification auto-expires to Idle with no follow-up request
\* having been made, the ClarificationContext is cleared, so a request made
\* later carries no context.
C22_ExpiryClearsContext ==
    [][ \A c \in clarificationTimers :
            (expireClarification(c) /\ state.status = "clarification")
            => clarificationContext' = <<>> ]_vars

(* --------------------- the transcription service alone ---------------- *)
\* StubVoiceApi driven directly by a client that awaits each processVoice call
\* before making the next one and may call setScenario at any moment.  The
\* client presents no context, the id of a clarification handed out earlier, or
\* an id the service never handed out (MaxIds + 1).  last records each service
\* step: for a settled call the context presented (pre) and the value the call
\* settled with (arg).
MaxIds == 3
ServiceContexts ==
    {<<>>} \cup {<<[clarificationId |-> i, previousPrompt |-> ClarificationPrompt]>> :
                    i \in 1..(MaxIds + 1)}
serviceOnly == <<storeVersion, state, storeData, storeTimer, audioVars, fileVars,
                 expiryVars, ghostVars, watch>>

\* voiceApi.processVoice(input) called: await this.simulateDelay().  Generated
\* ids are fresh (clarify_<time>_<random>), so an id the client presents is one
\* handed out already or one that is never generated.
apiCall(ctx) ==
    /\ tasks = EmptyBag
    /\ nextClarificationId < MaxIds
    /\ ctx # <<>> => ctx[1].clarificationId \in (1..nextClarificationId) \cup {MaxIds + 1}
    /\ Spawn(Task("client", "processVoice", NoUri, 0, ctx))
    /\ UNCHANGED <<apiVars, last, serviceOnly>>

\* the simulated delay elapsed: switch (this.scenario) { ... }
apiSettle ==
    \E t \in Parked("client", "processVoice") :
        /\ processVoice_effect(t.ctx)
        /\ UNCHANGED scenario
        /\ Finish(t)
        /\ last' = [op |-> "processVoice", pre |-> t.ctx, arg |-> processVoice(t.ctx)]
        /\ UNCHANGED serviceOnly

\* voiceApi.setScenario(s)
apiSetScenario(s) ==
    /\ voiceApi_setScenario(s)
    /\ last' = [op |-> "setScenario", pre |-> <<>>, arg |-> s]
    /\ UNCHANGED <<tasks, serviceOnly>>

InitService == storeVersion = 2 /\ watch = {"processVoice", "setScenario"} /\ InitProgram
NextService ==
    \/ \E ctx \in ServiceContexts : apiCall(ctx)
    \/ apiSettle
    \/ \E s \in ApiScenario : apiSetScenario(s)
SpecService == InitService /\ [][NextService]_vars

\* the latest service step was a call that settled under the scenario still selected
AfterCall == last.op = "processVoice"

\* C23: under the clarification scenario a call without context settles with a
\* Clarification carrying an id never handed out before; the next call, made
\* with that id, settles with Ok "Alarm set for 7:00 AM." and consumes the id;
\* presenting the same id once more does not settle with Ok again.
C23_ClarificationProtocol ==
    [][ (apiSettle /\ scenario = "clarification")
        => LET ctx == last'.pre
               r == last'.arg
           IN /\ ctx = <<>>
                 => /\ r.kind = "clarification"
                    /\ r.prompt = ClarificationPrompt
                    /\ r.clarificationId \notin 1..nextClarificationId
                    /\ r.clarificationId \in clarificationState'
              /\ (/\ AfterCall
                  /\ last.arg.kind = "clarification"
                  /\ ctx # <<>>
                  /\ ctx[1].clarificationId = last.arg.clarificationId)
                 => /\ r = [kind |-> "ok", transcript |-> FollowUpTranscript]
                    /\ ctx[1].clarificationId \notin clarificationState'
              /\ (/\ AfterCall
                  /\ last.arg.kind = "ok"
                  /\ last.pre # <<>>
                  /\ ctx = last.pre)
                 => r.kind # "ok" ]_vars

\* C23 witness: the call made with the id of the preceding Clarification was
\* answered with Ok "Alarm set for 7:00 AM." and the id is consumed
C23_Witness ==
    /\ scenario = "clarification"
    /\ last.op = "processVoice"
    /\ last.pre # <<>>
    /\ last.arg = [kind |-> "ok", transcript |-> FollowUpTranscript]
    /\ last.pre[1].clarificationId \notin clarificationState
    /\ last.pre[1].clarificationId <= nextClarificationId

\* C24: under the clarification scenario a call presenting a clarificationId
\* the service does not hold (never handed out, already consumed, or dropped
\* by setScenario) is treated as a call without context: it settles with a
\* Clarification carrying a newly registered id, never with a rejection.
C24_UnknownIdStartsAfresh ==
    [][ (apiSettle /\ scenario = "clarification")
        => LET ctx == last'.pre
               r == last'.arg
           IN (ctx # <<>> /\ ctx[1].clarificationId \notin clarificationState)
              => /\ r.kind = "clarification"
                 /\ r.prompt = ClarificationPrompt
                 /\ r.clarificationId # ctx[1].clarificationId
                 /\ r.clarificationId \notin 1..nextClarificationId
                 /\ clarificationState' = clarificationState \cup {r.clarificationId} ]_vars

\* C24 witness: an id handed out earlier and no longer held was presented and
\* answered with a Clarification carrying the newest id
C24_Witness ==
    /\ scenario = "clarification"
    /\ last.op = "processVoice"
    /\ last.pre # <<>>
    /\ last.pre[1].clarificationId < nextClarificationId
    /\ last.pre[1].clarificationId \notin clarificationState
    /\ last.arg.kind = "clarification"
    /\ last.arg.clarificationId = nextClarificationId

(* --------------------- capture cycles with scenario switches ---------- *)
\* The capture cycles of SpecCycle, with the scenario picker usable at any
\* moment (the settings screen stays reachable throughout); every setScenario
\* and every settled transcription request is recorded in last.
InitScenarioSwitch ==
    /\ storeVersion \in {1, 2}
    /\ watch = {"setScenario", "processVoice"}
    /\ InitProgram
NextScenarioSwitch ==
    \/ \E s \in ApiScenario : setScenario(s)
    \/ cycleStart
    \/ cycleStop_v1
    \/ cycleStop_v2
    \/ cycleSave
    \/ cycleDismissError
    \/ \E hasPermission \in BOOLEAN : startRecording_afterCheckPermission(hasPermission)
    \/ startRecording_afterRequestPermission(TRUE)
    \/ startRecording_afterSetAudioMode(TRUE)
    \/ startRecording_afterCreate(TRUE)
    \/ stopRecording_afterStopAndUnload("ok")
    \/ stopRecording_afterSetAudioMode(TRUE)
    \/ afterProcessVoice
    \/ tick
    \/ AudioService_poll
    \/ \E e \in resultTimers : expireResult(e)
    \/ \E c \in clarificationTimers : expireClarification(c)
SpecScenarioSwitch == InitScenarioSwitch /\ [][NextScenarioSwitch]_vars

\* C25: setScenario empties the service's clarification bookkeeping, also when
\* the clarification scenario is selected again, and leaves the store's
\* ClarificationContext as it is; the first request settled after it under the
\* clarification scenario, carrying the context still held, is answered with a
\* Clarification under a new id, which replaces the held context.
C25_SetScenarioResetsService ==
    [][ /\ \A s \in ApiScenario :
               setScenario(s) => /\ clarificationState' = {}
                                 /\ scenario' = s
                                 /\ clarificationContext' = clarificationContext
        /\ (afterProcessVoice /\ scenario = "clarification" /\ last.op = "setScenario")
           => \A t \in BagToSet(tasks) :
                  SettlesWithContext(t)
                  => /\ state' = Clarification(ClarificationPrompt, nextClarificationId + 1)
                     /\ t.ctx[1].clarificationId # nextClarificationId + 1
                     /\ clarificationContext' =
                            <<[clarificationId |-> nextClarificationId + 1,
                               previousPrompt |-> ClarificationPrompt]>> ]_vars

\* C25 witness: the second request carried the context of the first
\* Clarification, the clarification scenario having been selected again in
\* between, and was answered with a second Clarification
C25_Witness ==
    /\ scenario = "clarification"
    /\ Len(requestLog) = 2
    /\ requestLog[1].context = <<>>
    /\ requestLog[2].context # <<>>
    /\ requestLog[2].context[1].clarificationId = 1
    /\ state = Clarification(ClarificationPrompt, 2)
    /\ clarificationContext # <<>>
    /\ clarificationContext[1].clarificationId = 2
    /\ clarificationState = {2}

\* the transcription requests awaiting the service's answer
PendingRequests == {t \in BagToSet(tasks) : t.pc = "processVoice"}

\* C26: the scenario selected when processVoice is called determines the
\* result: a setScenario made while a request is waiting out the simulated
\* delay does not change the kind of answer that request settles with.
C26_ScenarioFixedAtCall ==
    [][ \A s \in ApiScenario :
            setScenario(s)
            => \A t \in PendingRequests :
                   LET before == processVoice(t.ctx)
                       after == processVoice(t.ctx)'
                   IN after.kind = before.kind ]_vars

\* the store's startRecording reaches its call of AudioService.startRecording
CallsRecorderStart ==
    \/ startRecording_afterCheckPermission(TRUE)
    \/ startRecording_afterRequestPermission(TRUE)

\* C27: AudioService.startRecording called while a capture is active fails
\* with an AlreadyRecording error that reaches the caller (the store's catch
\* block sets Error) and leaves the active capture untouched; it does not
\* return successfully.
C27_StartWhileRecordingFails ==
    [][ (CallsRecorderStart /\ recording # NoUri)
        => /\ state'.status = "error"
           /\ UNCHANGED audioVars ]_vars

\* AudioService.stopRecording throws in this step: called with no capture
\* (first copy of the store), or stopAndUnloadAsync / getURI / setAudioModeAsync
\* failed
RecorderStopThrows ==
    \/ (stopRecording_v1 /\ recording = NoUri)
    \/ \E outcome \in {"ok", "throw", "noUri"} :
           /\ stopRecording_afterStopAndUnload(outcome)
           /\ (outcome # "ok" \/ recording = NoUri)
    \/ stopRecording_afterSetAudioMode(FALSE)

\* C28: AudioService.stopRecording called with no capture fails, the failure
\* reaching the caller (the store's catch block sets Error); and whenever
\* stopRecording fails, for whatever reason, the Recorder ends with no active
\* capture and no polling interval running.
C28_FailedStopLeavesRecorderClean ==
    [][ RecorderStopThrows
        => /\ state'.status = "error"
           /\ recording' = NoUri
           /\ recordingDuration' = 0
           /\ svcDurationInterval' = FALSE
           /\ svcLeakedIntervals' = 0 ]_vars

(* --------------------- capture cycles, timers firing ------------------ *)
\* The capture cycles of SpecCycle, in which no intent is available while a
\* Result or a Clarification is shown (recording starts from Idle only).  A
\* timer set with setTimeout fires once it is due, whatever else happens: the
\* event loop runs every due callback.
ExpiryFairness ==
    /\ WF_vars(\E e \in resultTimers : expireResult(e))
    /\ WF_vars(\E c \in clarificationTimers : expireClarification(c))
FairCycle == SpecCycle /\ ExpiryFairness

\* a Result or a Clarification is shown
ShowsOutcome == state.status \in {"result", "clarification"}

C30_MostRecentFirst ==
    /\ [][ ResolvesOk
           => /\ transcripts' = <<Head(transcripts')>> \o transcripts
              /\ Head(transcripts').text = state'.transcript
              /\ \A i \in 1..Len(transcripts) :
                     transcripts[i].id # Head(transcripts').id ]_vars
    /\ [](\A i \in 1..Len(transcripts) :
              transcripts[i].id = Len(transcripts) - i + 1)

\* C30 witness: two transcriptions succeeded; the entry of the second is at the
\* head, the entry of the first behind it, and the second Result is shown
C30_Witness ==
    /\ Len(transcripts) = 2
    /\ transcripts[1].id = 2
    /\ transcripts[2].id = 1
    /\ state = Result(transcripts[1].text)

\* the messages the store and the service put into a state
Messages == {PermissionDeniedMessage, StartFailedMessage, StopFailedMessage,
             DefaultErrorMessage, NetworkErrorMessage}

\* s is a value of the AppState union: one status, with exactly the fields its
\* variant declares (audioUri and duration are optional on 'error', and only
\* the copy with the 'recorded' state has them)
IsAppState(s) ==
    /\ "status" \in DOMAIN s
    /\ CASE s.status \in {"idle", "checkingPermission", "processing"} ->
              DOMAIN s = {"status"}
         [] s.status = "permissionDenied" ->
              DOMAIN s = {"status", "message"} /\ s.message \in Messages
         [] s.status = "listening" ->
              DOMAIN s = {"status", "duration"} /\ s.duration \in 0..MaxDuration
         [] s.status = "recorded" ->
              /\ storeVersion = 2
              /\ DOMAIN s = {"status", "duration", "audioUri"}
              /\ s.duration \in 0..MaxDuration
              /\ s.audioUri \in Uris
         [] s.status = "result" ->
              /\ DOMAIN s = {"status", "transcript"}
              /\ s.transcript \in {SuccessTranscript, FollowUpTranscript}
         [] s.status = "clarification" ->
              /\ DOMAIN s = {"status", "prompt", "clarificationId"}
              /\ s.prompt = ClarificationPrompt
              /\ s.clarificationId \in 1..nextClarificationId
         [] s.status = "error" ->
              /\ {"status", "message", "errorType"} \subseteq DOMAIN s
              /\ s.message \in Messages
              /\ s.errorType \in {"network", "server"}
              /\ \/ DOMAIN s = {"status", "message", "errorType"}
                 \/ /\ storeVersion = 2
                    /\ DOMAIN s = {"status", "message", "errorType", "audioUri", "duration"}
                    /\ s.audioUri \in Uris
                    /\ s.duration \in 0..MaxDuration
         [] OTHER -> FALSE

\* C31: whatever intents and completions have occurred, the controller state
\* is exactly one of the declared status variants and carries that variant's
\* payload: message for PermissionDenied, duration for Listening, transcript
\* for Result, prompt and clarificationId for Clarification, message and an
\* errorType of network or server for Error.
C31_StateIsOneVariant == IsAppState(state)

\* C31 witness: a rejected transcription left the Error variant carrying the
\* recording, a duration, a message and the errorType network
C31_Witness ==
    /\ state.status = "error"
    /\ DOMAIN state = {"status", "message", "errorType", "audioUri", "duration"}
    /\ state.errorType = "network"
    /\ state.audioUri \in files

\* the store's duration-tick timers that are running
TickTimers == (IF durationInterval THEN 1 ELSE 0) + leakedIntervals

\* C32: at most one duration-tick timer of the store is running, and none
\* unless the state is Listening: a timer created by an earlier startRecording
\* is never left running once a later step has moved on or replaced it.
C32_OneTickTimerOnlyInListening ==
    /\ TickTimers <= 1
    /\ TickTimers = 1 => state.status = "listening"

\* the program as in Spec, with every tick callback recorded in last
InitTickObserved == storeVersion \in {1, 2} /\ watch = {"tick"} /\ InitProgram
SpecTickObserved == InitTickObserved /\ [][Next]_vars

\* C33: a tick callback firing when the state is not Listening leaves the
\* state as it is; one firing in Listening keeps the status Listening and
\* changes nothing but the duration.  Neither touches anything else.
C33_TickGuarded ==
    [][ tick
        => /\ IF state.status = "listening"
              THEN /\ state'.status = "listening"
                   /\ DOMAIN state' = {"status", "duration"}
                   /\ state'.duration = recordingDuration
              ELSE state' = state
           /\ UNCHANGED <<transcripts, clarificationContext, storeTimer, audioVars,
                          fileVars, tasks, expiryVars>> ]_vars

\* C33 witness: the latest tick fired while a request was being processed, a
\* timer of an earlier Listening still running, and left Processing in place
C33_Witness ==
    /\ last.op = "tick"
    /\ last.pre = Processing
    /\ state = Processing
    /\ TickTimers >= 1

\* C34: the auto-expire timer of an earlier Result (Clarification) does not
\* return a later Result (Clarification) to Idle: when it fires while a later
\* one is displayed, that one stays displayed until its own timer fires.
C34_ExpiryOnlyForOwnResult ==
    [][ /\ \A e \in resultTimers :
             (expireResult(e) /\ state.status = "result" /\ e < Len(transcripts))
             => state'.status = "result"
        /\ \A c \in clarificationTimers :
             (/\ expireClarification(c)
              /\ state.status = "clarification"
              /\ c < state.clarificationId)
             => state'.status = "clarification" ]_vars

\* the capture the Recorder references is being cancelled: a cancelRecording
\* call for it is still awaiting the platform
BeingCancelled(u) == \E t \in BagToSet(tasks) : t.fn = "cancelRecording" /\ t.uri = u

\* C35: whenever the state is Listening the Recorder has an active capture,
\* and it is not a capture whose cancellation is under way: a startRecording
\* issued right after cancelRecording does not reach Listening on top of the
\* capture that is being cancelled.
C35_ListeningHasOwnCapture ==
    state.status = "listening" => (recording # NoUri /\ ~BeingCancelled(recording))

\* a call of AudioService.startRecording, stopRecording or cancelRecording has
\* not returned yet
RecorderOperationPending ==
    \E t \in BagToSet(tasks) :
        /\ t.fn \in {"startRecording", "stopRecording", "cancelRecording"}
        /\ t.pc \in {"setAudioModeAsync", "createAsync", "stopAndUnloadAsync"}

\* C36: whenever the state is Idle, PermissionDenied, Recorded, Processing,
\* Result, Clarification or Error and no Recorder operation is pending, the
\* Recorder has no active capture.
C36_NoOrphanedCapture ==
    (/\ state.status \in {"idle", "permissionDenied", "recorded", "processing",
                          "result", "clarification", "error"}
     /\ ~RecorderOperationPending)
    => recording = NoUri

\* everything the program holds, the observation variables aside
programVars == <<storeVersion, state, storeData, storeTimer, audioVars, fileVars,
                 apiVars, tasks, expiryVars, ghostVars>>

InitRetryObserved == storeVersion = 2 /\ watch = {"retrySendRecording"} /\ InitProgram
SpecRetryObserved == InitRetryObserved /\ [][NextV2]_vars

\* the request issued by retrySendRecording settles in this step
RetrySettles(t) ==
    /\ afterProcessVoice
    /\ t.fn = "retrySendRecording"
    /\ t.pc = "processVoice"
    /\ CopiesIn(t, tasks') < CopiesIn(t, tasks)

TimeoutMessage == "The request timed out."
TypeErrorMessage == "Network request failed"
Rejections ==
    { createNetworkError,
      createServerError,
      [kind |-> "error", code |-> "TIMEOUT", message |-> TimeoutMessage],
      [name |-> "TypeError", message |-> TypeErrorMessage],
      [kind |-> "failure", code |-> "NETWORK", message |-> NetworkErrorMessage] }

\* await voiceApi.processVoice(input) rejects with error: the catch block of the
\* handler that issued the request runs to its end
rejectProcessVoice(error) ==
    \E t \in PendingRequests :
        /\ Finish(t)
        /\ IF storeVersion = 2
           THEN onRejected_v2(error, t.uri, t.duration)
           ELSE onRejected_v1(error)
        /\ Step("processVoiceRejected", error)
        /\ UNCHANGED <<storeVersion, currentScenario, audioVars, apiVars, ghostVars>>

\* the capture cycles of SpecCycle, served by a transcription backend that may
\* also reject with any of Rejections
InitRejection == storeVersion \in {1, 2} /\ watch = {"processVoiceRejected"} /\ InitProgram
NextRejection ==
    \/ NextCycle
    \/ \E error \in Rejections : rejectProcessVoice(error)
SpecRejection == InitRejection /\ [][NextRejection]_vars

\* C39: a rejection of shape {kind: 'error', code: 'NETWORK'} yields Error with
\* errorType network and the rejection's message; {kind: 'error'} with any
\* other code yields errorType server with the rejection's message; a
\* rejection not of that shape yields errorType server with the default
\* message; and an Error of errorType server never carries the recording.
C39_RejectionClassified ==
    [][ \A error \in Rejections :
            rejectProcessVoice(error)
            => /\ state'.status = "error"
               /\ IF "kind" \in DOMAIN error /\ error.kind = "error"
                  THEN /\ state'.message = error.message
                       /\ state'.errorType =
                              IF error.code = "NETWORK" THEN "network" ELSE "server"
                  ELSE /\ state'.message = "Something went wrong. Please try again."
                       /\ state'.errorType = "server"
               /\ state'.errorType = "server" => AudioUriOf(state') = NoUri
               /\ transcripts' = transcripts ]_vars

\* C39 witness: the request was rejected with a thrown Error object and the
\* state is Error with errorType server, the default message and no recording
C39_Witness ==
    /\ last.op = "processVoiceRejected"
    /\ last.arg = [name |-> "TypeError", message |-> TypeErrorMessage]
    /\ state = ErrorState(DefaultErrorMessage, "server")
    /\ Len(requestLog) >= 1
====
